---- MODULE Spec2Model ----
(***************************************************************************)
(* Remote reconciliation layer of app/actions/remote/user.ts: fetchMe,     *)
(* fetchProfilesInChannel, fetchProfilesPerChannels, loadMe and updateMe.  *)
(* One behaviour is one call of one operation against one server, from    *)
(* the registries' state to the returned result, with every network       *)
(* request, store call and forced-logout handler it starts.               *)
(***************************************************************************)
EXTENDS Integers, Sequences, FiniteSets, TLC

(***************************************************************************)
(* Bounds of the inputs.                                                   *)
(***************************************************************************)
\* longest getProfilesInChannel response
MaxUsers == 2
\* longest getMyTeamMembers response
MaxMembers == 2
\* longest getMyTeamUnreads response
MaxUnreads == 2

\* Strings the code splits are sequences of characters.
Str_empty == <<>>
Str_a == <<"a">>
Str_b == <<"b">>
Str_a_b == <<"a", " ", "b">>
RoleStrings == {Str_empty, Str_a, Str_b, Str_a_b}

\* Profile objects a channel response can hold: obj is the object's identity,
\* id its user id. Objects 1 and 2 are distinct objects with the same id.
Profiles == {[obj |-> 1, id |-> "u1"], [obj |-> 2, id |-> "u1"], [obj |-> 3, id |-> "u2"]}
UserIds == {"u1", "u2"}

\* The current user's profile as getMe, patchMe or the caller give it.
MeProfiles == [id : {"me"}, roles : RoleStrings]

ChannelIdLists == {<<>>, <<"c1">>, <<"c1", "c2">>, <<"c2", "c1">>}
ChannelIds == {"c1", "c2"}

\* Errors a network request rejects with, and the other errors of the layer.
NetErrors == {"network_error", "session_expired"}
ClientNotFound == "client_not_found"
StoreError == "store_error"
LogoutError == "logout_handler_error"

SeqsUpTo(S, n) == UNION {[1..k -> S] : k \in 0..n}

Range(s) == {s[i] : i \in 1..Len(s)}

(***************************************************************************)
(* Pure helpers of the handlers.                                           *)
(***************************************************************************)
\* a deduplication by user id
RECURSIVE UniqueUsers_byId(_)
UniqueUsers_byId(users) ==
    IF users = <<>> THEN <<>>
    ELSE LET front == UniqueUsers_byId(SubSeq(users, 1, Len(users) - 1))
             last == users[Len(users)]
         IN IF \E i \in 1..Len(front) : front[i].id = last.id
            THEN front
            ELSE Append(front, last)

\* Array.from(new Set(users)): the first occurrence of every object, in order.
RECURSIVE UniqueUsers(_)
UniqueUsers(users) ==
    IF users = <<>> THEN <<>>
    ELSE LET front == UniqueUsers(SubSeq(users, 1, Len(users) - 1))
             last == users[Len(users)]
         IN IF \E i \in 1..Len(front) : front[i].obj = last.obj
            THEN front
            ELSE Append(front, last)

\* users.filter((u) => u.id !== excludeUserId); excludeUserId is <<>> when undefined.
RECURSIVE FilterExcluded(_, _)
FilterExcluded(users, excludeUserId) ==
    IF users = <<>> THEN <<>>
    ELSE LET rest == FilterExcluded(Tail(users), excludeUserId)
         IN IF excludeUserId # <<>> /\ Head(users).id = excludeUserId[1]
            THEN rest
            ELSE <<Head(users)>> \o rest

\* a persist guard that ignores fetchOnly
ShouldPersist_always(fetchOnly) == TRUE

\* if (!fetchOnly)
ShouldPersist(fetchOnly) == ~fetchOnly

\* if (operator): the operator of a server exists exactly when its database does
HasOperator(database) == database

\* the users a profiles result carries
ReturnedUsers(uniqueUsers, excludeUserId) == uniqueUsers

\* the fetchOnly argument fetchProfilesPerChannels gives every per-channel call
InnerFetchOnly(fetchOnly) == TRUE

\* A prepared (staged, unwritten) record of a table.
Prepared(table, raws) == [i \in 1..Len(raws) |-> [table |-> table, raw |-> raws[i]]]

\* One call on the operator, as the store sees it.
StoreCall(fn, prepareRecordsOnly, items) ==
    [fn |-> fn, prepareRecordsOnly |-> prepareRecordsOnly, items |-> items]

\* an upsert that only stages its records
ImmediateUpsert_staged(users) == StoreCall("handleUsers", TRUE, users)

\* operator.handleUsers({users, prepareRecordsOnly: false})
ImmediateUpsert(users) == StoreCall("handleUsers", FALSE, users)

\* One request on the network client.
NetCall(method, arg) == [method |-> method, arg |-> arg]

\* A call of the forced-logout handler.
LogoutCall(error, awaited) == [error |-> error, awaited |-> awaited, status |-> "running"]

\* a handler call nobody waits for
HandlerSettled_noAwait(call) == TRUE

\* await forceLogoutIfNecessary(...): the caller goes on once the handler settled
HandlerSettled(call) == call.status # "running"

\* The result an operation returns: error and value are <<>> when absent.
Returned(error, value) == [st |-> "returned", error |-> error, value |-> value]
Raised(error) == [st |-> "raised", error |-> <<error>>, value |-> <<>>]
NoResult == [st |-> "pending", error |-> <<>>, value |-> <<>>]

\* A per-channel result {channelId, users} or {channelId, error}.
ChannelResult(channelId, users, error) ==
    [channelId |-> channelId, users |-> users, error |-> error]

\* Array.from(new Set(values)) for values compared by value (strings)
RECURSIVE Unique(_)
Unique(values) ==
    IF values = <<>> THEN <<>>
    ELSE LET front == Unique(SubSeq(values, 1, Len(values) - 1))
             last == values[Len(values)]
         IN IF \E i \in 1..Len(front) : front[i] = last THEN front ELSE Append(front, last)

\* String.prototype.split(' '): the pieces between the spaces, empty pieces included,
\* so the empty string splits into one empty piece
RECURSIVE SplitFrom(_, _, _, _)
SplitFrom(s, i, piece, pieces) ==
    IF i > Len(s) THEN Append(pieces, piece)
    ELSE IF s[i] = " " THEN SplitFrom(s, i + 1, <<>>, Append(pieces, piece))
    ELSE SplitFrom(s, i + 1, Append(piece, s[i]), pieces)

Split(s) == SplitFrom(s, 1, <<>>, <<>>)

\* JSON.stringify
JSONstringify(value) == [json |-> value]

\* teamMemberships.find((team) => team.team_id === unread.team_id)?.roles ?? ''
MatchingRoles(teamMemberships, team_id) ==
    LET found == {j \in 1..Len(teamMemberships) : teamMemberships[j].team_id = team_id}
    IN IF found = {} THEN Str_empty
       ELSE teamMemberships[CHOOSE j \in found : \A k \in found : j <= k].roles

\* a derivation that keeps only the unread entries that have a membership
RECURSIVE MyTeams_matchedOnly(_, _)
MyTeams_matchedOnly(teamUnreads, teamMemberships) ==
    IF teamUnreads = <<>> THEN <<>>
    ELSE LET unread == Head(teamUnreads)
             rest == MyTeams_matchedOnly(Tail(teamUnreads), teamMemberships)
         IN IF \E j \in 1..Len(teamMemberships) : teamMemberships[j].team_id = unread.team_id
            THEN <<[id |-> unread.team_id,
                    roles |-> MatchingRoles(teamMemberships, unread.team_id),
                    is_unread |-> unread.msg_count > 0,
                    mentions_count |-> unread.mention_count]>> \o rest
            ELSE rest

\* the derived my-team list of loadMe
MyTeams(teamUnreads, teamMemberships) ==
    [i \in 1..Len(teamUnreads) |->
        [id |-> teamUnreads[i].team_id,
         roles |-> MatchingRoles(teamMemberships, teamUnreads[i].team_id),
         is_unread |-> teamUnreads[i].msg_count > 0,
         mentions_count |-> teamUnreads[i].mention_count]]

\* the roles array of loadMe before deduplication
RECURSIVE MemberRoles(_)
MemberRoles(teamMemberships) ==
    IF teamMemberships = <<>> THEN <<>>
    ELSE Split(Head(teamMemberships).roles) \o MemberRoles(Tail(teamMemberships))

\* Array.from(rolesToLoad)
RolesToLoad(currentUser, teamMemberships) ==
    Unique(Split(currentUser.roles) \o MemberRoles(teamMemberships))

\* if (rolesToLoad.size > 0)
ShouldLoadRoles(rolesToLoad) == Len(rolesToLoad) > 0

\* the systems argument of handleSystem
Systems(config, license, currentUser) ==
    <<[id |-> "CONFIG", value |-> JSONstringify(config)],
      [id |-> "LICENSE", value |-> JSONstringify(license)],
      [id |-> "CURRENT_USER_ID", value |-> currentUser.id]>>

\* the six requests loadMe joins, in the order it issues them
JoinedRequests ==
    <<"getMyTeams", "getMyTeamMembers", "getMyTeamUnreads", "getMyPreferences",
      "getClientConfigOld", "getClientLicenseOld">>

\* a flattening that loses the role records
FlattenedModels_noRoles(l) ==
    Prepared("Team", l.teams) \o Prepared("TeamMembership", l.teamMemberships)
    \o Prepared("MyTeam", l.myTeams) \o Prepared("System", l.systems)
    \o Prepared("Preference", l.preferences) \o Prepared("User", l.currentUser)

\* models.flat() over [teamRecords, teamMembershipRecords, myTeamRecords, systemRecords,
\* preferenceRecords, rolesRecords, userRecords]
FlattenedModels(l) ==
    Prepared("Team", l.teams) \o Prepared("TeamMembership", l.teamMemberships)
    \o Prepared("MyTeam", l.myTeams) \o Prepared("System", l.systems)
    \o Prepared("Preference", l.preferences) \o l.rolesRecords
    \o Prepared("User", l.currentUser)

\* a catch block that still hands out the current user
LoadMeError_keepsUser(error, currentUser) == Returned(<<error>>, currentUser)

\* the result of loadMe's catch blocks
LoadMeError(error, currentUser) == Returned(<<error>>, <<>>)

\* a guard that wants more than one role
ShouldRefreshRoles_moreThanOne(updatedRoles) == Len(updatedRoles) > 1

\* if (updatedRoles.length)
ShouldRefreshRoles(updatedRoles) == Len(updatedRoles) > 0

DatabaseNotFound == "database_not_found"

(***************************************************************************)
(* The inputs and responses of a call.                                     *)
(***************************************************************************)
Excludes == {<<>>} \cup {<<u>> : u \in UserIds}

Responses == SeqsUpTo(Profiles, MaxUsers)

DeviceTokens == {<<>>, <<"token">>}

OptionalMe == {<<>>} \cup {<<u>> : u \in MeProfiles}


TeamMembers ==
    {[team_id |-> "t1", roles |-> Str_a], [team_id |-> "t1", roles |-> Str_a_b],
     [team_id |-> "t2", roles |-> Str_empty]}

TeamUnreads ==
    {[team_id |-> "t1", msg_count |-> 0, mention_count |-> 0],
     [team_id |-> "t2", msg_count |-> 3, mention_count |-> 1]}

\* the other four responses loadMe joins: teams, preferences, config, license
OtherResponses ==
    {[teams |-> <<>>, preferences |-> <<>>, config |-> "config", license |-> "license"],
     [teams |-> <<[id |-> "t1"]>>, preferences |-> <<[category |-> "theme", name |-> "t1"]>>,
      config |-> "config", license |-> "license"]}

\* what getRolesByNames answers for the names asked: nothing, or a role per name
RoleResponses(names) == {<<>>, [i \in 1..Len(names) |-> [name |-> names[i]]]}

VARIABLES
    clientRegistered,  \* NetworkManager has a client for the server
    serverDatabase,    \* DatabaseManager.serverDatabases[serverUrl] exists
    op,                \* the operation called, "idle" before the call
    args,              \* its arguments
    pc,                \* where the call is suspended
    frames,            \* the fetchProfilesInChannel calls in progress
    netLog,            \* the network requests issued, in order
    storeLog,          \* the operator calls made, in order
    logout,            \* the forced-logout handler calls started
    loc,               \* the locals of loadMe and updateMe
    sideLog,           \* logError and fetchRolesIfNeeded calls
    result             \* what the call returned

vars == <<clientRegistered, serverDatabase, op, args, pc, frames, netLog, storeLog,
          logout, loc, sideLog, result>>

NoArgs ==
    [fetchOnly |-> FALSE, excludeUserId |-> <<>>, channelIds |-> <<>>,
     deviceToken |-> <<>>, user |-> <<>>]

NoLoc ==
    [currentUser |-> <<>>, pending |-> {}, teams |-> <<>>, teamMemberships |-> <<>>,
     teamUnreads |-> <<>>, myTeams |-> <<>>, systems |-> <<>>, preferences |-> <<>>,
     rolesToLoad |-> <<>>, rolesByName |-> <<>>, rolesRecords |-> <<>>, data |-> <<>>,
     caught |-> "none"]

Init ==
    /\ clientRegistered \in BOOLEAN
    /\ serverDatabase \in BOOLEAN
    /\ op = "idle"
    /\ args = NoArgs
    /\ pc = "idle"
    /\ frames = <<>>
    /\ netLog = <<>>
    /\ storeLog = <<>>
    /\ logout = <<>>
    /\ loc = NoLoc
    /\ sideLog = <<>>
    /\ result = NoResult

(***************************************************************************)
(* The forced-logout handler: it runs on its own once started.             *)
(***************************************************************************)
forceLogoutDone(i) ==
    /\ i \in 1..Len(logout)
    /\ logout[i].status = "running"
    /\ logout' = [logout EXCEPT ![i].status = "done"]
    /\ UNCHANGED <<clientRegistered, serverDatabase, op, args, pc, frames, netLog,
                   storeLog, loc, sideLog, result>>

forceLogoutFailed(i) ==
    /\ i \in 1..Len(logout)
    /\ logout[i].status = "running"
    /\ logout' = [logout EXCEPT ![i].status = "failed"]
    /\ UNCHANGED <<clientRegistered, serverDatabase, op, args, pc, frames, netLog,
                   storeLog, loc, sideLog, result>>

(***************************************************************************)
(* fetchMe                                                                 *)
(***************************************************************************)
\* a catch block that swallows the error
FetchMeError_swallowed(error) == Returned(<<>>, <<>>)

\* what the catch block of fetchMe returns
FetchMeError(error) == Returned(<<error>>, <<>>)

\* the call, up to the first await
fetchMe(fetchOnly) ==
    /\ op = "idle"
    /\ op' = "fetchMe"
    /\ args' = [NoArgs EXCEPT !.fetchOnly = fetchOnly]
    /\ IF clientRegistered
       THEN /\ netLog' = Append(netLog, NetCall("getMe", <<>>))
            /\ pc' = "awaitGetMe"
            /\ result' = result
       ELSE /\ netLog' = netLog
            /\ pc' = "done"
            /\ result' = Returned(<<ClientNotFound>>, <<>>)
    /\ UNCHANGED <<clientRegistered, serverDatabase, frames, storeLog, logout, loc, sideLog>>

\* getMe resolves
fetchMe_getMeResolved(user) ==
    /\ op = "fetchMe" /\ pc = "awaitGetMe"
    /\ storeLog' = IF ShouldPersist(args.fetchOnly) /\ HasOperator(serverDatabase)
                   THEN Append(storeLog, ImmediateUpsert(<<user>>))
                   ELSE storeLog
    /\ result' = Returned(<<>>, <<user>>)
    /\ pc' = "done"
    /\ UNCHANGED <<clientRegistered, serverDatabase, op, args, frames, netLog, logout,
                   loc, sideLog>>

\* getMe rejects: the handler is started and awaited
fetchMe_getMeRejected(error) ==
    /\ op = "fetchMe" /\ pc = "awaitGetMe"
    /\ logout' = Append(logout, LogoutCall(error, TRUE))
    /\ pc' = "awaitLogout"
    /\ UNCHANGED <<clientRegistered, serverDatabase, op, args, frames, netLog, storeLog,
                   loc, sideLog, result>>

\* the awaited handler has settled
fetchMe_afterLogout ==
    /\ op = "fetchMe" /\ pc = "awaitLogout"
    /\ HandlerSettled(logout[1])
    /\ result' = IF logout[1].status = "failed"
                 THEN Raised(LogoutError)
                 ELSE FetchMeError(logout[1].error)
    /\ pc' = "done"
    /\ UNCHANGED <<clientRegistered, serverDatabase, op, args, frames, netLog, storeLog,
                   logout, loc, sideLog>>

(***************************************************************************)
(* fetchProfilesInChannel: frame i is one call of it, either the call      *)
(* itself or one of the per-channel calls of fetchProfilesPerChannels.     *)
(***************************************************************************)
\* the call up to its first await: the client lookup and the request
NewFrame(channelId, fetchOnly) ==
    [channelId |-> channelId, fetchOnly |-> fetchOnly,
     pc |-> IF clientRegistered THEN "awaitProfiles" ELSE "returned",
     users |-> <<>>,
     rank |-> 0,
     uniqueUsers |-> <<>>,
     staged |-> <<>>,
     res |-> IF clientRegistered THEN <<>>
             ELSE <<ChannelResult(channelId, <<>>, <<ClientNotFound>>)>>]

\* a request that is sent again right away
NewRequests_twice(channelIds) ==
    IF clientRegistered
    THEN [i \in 1..(2 * Len(channelIds)) |->
             NetCall("getProfilesInChannel", <<channelIds[((i - 1) % Len(channelIds)) + 1]>>)]
    ELSE <<>>

NewRequests(channelIds) ==
    IF clientRegistered
    THEN [i \in 1..Len(channelIds) |-> NetCall("getProfilesInChannel", <<channelIds[i]>>)]
    ELSE <<>>

\* the frames that have returned
ReturnedFrames == {k \in 1..Len(frames) : frames[k].pc = "returned"}

\* frame i returns r; the call of fetchProfilesInChannel itself returns it to the
\* caller. rank is the frame's place in the order in which the frames returned after
\* an await (0: it returned before any await).
FrameReturnsWith(i, r, users) ==
    /\ frames' = [frames EXCEPT ![i].pc = "returned", ![i].res = <<r>>,
                                ![i].users = users,
                                ![i].rank = Cardinality(ReturnedFrames) + 1]
    /\ IF op = "fetchProfilesInChannel"
       THEN /\ result' = Returned(r.error, IF r.error = <<>> THEN <<r.users>> ELSE <<>>)
            /\ pc' = "done"
       ELSE UNCHANGED <<result, pc>>

FrameReturns(i, r) == FrameReturnsWith(i, r, frames[i].users)

\* the catch block: the handler is started, not awaited, and the error returned
FrameCatches(i, error) ==
    /\ logout' = Append(logout, LogoutCall(error, FALSE))
    /\ FrameReturns(i, ChannelResult(frames[i].channelId, <<>>, <<error>>))

fetchProfilesInChannel(channelId, excludeUserId, fetchOnly) ==
    /\ op = "idle"
    /\ op' = "fetchProfilesInChannel"
    /\ args' = [NoArgs EXCEPT !.fetchOnly = fetchOnly, !.excludeUserId = excludeUserId,
                              !.channelIds = <<channelId>>]
    /\ frames' = <<NewFrame(channelId, fetchOnly)>>
    /\ netLog' = netLog \o NewRequests(<<channelId>>)
    /\ IF clientRegistered
       THEN /\ pc' = "awaitFrame"
            /\ result' = result
       ELSE /\ pc' = "done"
            /\ result' = Returned(<<ClientNotFound>>, <<>>)
    /\ UNCHANGED <<clientRegistered, serverDatabase, storeLog, logout, loc, sideLog>>

\* getProfilesInChannel resolves
fetchProfilesInChannel_resolved(i) ==
    /\ i \in 1..Len(frames)
    /\ frames[i].pc = "awaitProfiles"
    /\ \E users \in Responses :
       LET uniqueUsers == UniqueUsers(users)
           toStage == FilterExcluded(uniqueUsers, args.excludeUserId)
       IN IF ShouldPersist(frames[i].fetchOnly) /\ HasOperator(serverDatabase)
          THEN /\ storeLog' = Append(storeLog, StoreCall("handleUsers", TRUE, toStage))
               /\ frames' = [frames EXCEPT ![i].pc = "awaitPrepare",
                                           ![i].users = users,
                                           ![i].uniqueUsers = uniqueUsers,
                                           ![i].staged = toStage]
               /\ UNCHANGED <<result, pc>>
          ELSE /\ storeLog' = storeLog
               /\ FrameReturnsWith(i, ChannelResult(frames[i].channelId,
                                    ReturnedUsers(uniqueUsers, args.excludeUserId), <<>>),
                                   users)
    /\ UNCHANGED <<clientRegistered, serverDatabase, op, args, netLog, logout, loc, sideLog>>

\* getProfilesInChannel rejects
fetchProfilesInChannel_rejected(i, error) ==
    /\ i \in 1..Len(frames)
    /\ frames[i].pc = "awaitProfiles"
    /\ FrameCatches(i, error)
    /\ UNCHANGED <<clientRegistered, serverDatabase, op, args, netLog, storeLog, loc, sideLog>>

\* the staged records are ready: commit them if there are any
fetchProfilesInChannel_prepared(i) ==
    /\ i \in 1..Len(frames)
    /\ frames[i].pc = "awaitPrepare"
    /\ LET models == Prepared("User", frames[i].staged)
       IN IF Len(models) > 0
          THEN /\ storeLog' = Append(storeLog, StoreCall("batchRecords", FALSE, models))
               /\ frames' = [frames EXCEPT ![i].pc = "awaitBatch"]
               /\ UNCHANGED <<result, pc>>
          ELSE /\ storeLog' = storeLog
               /\ FrameReturns(i, ChannelResult(frames[i].channelId,
                            ReturnedUsers(frames[i].uniqueUsers, args.excludeUserId), <<>>))
    /\ UNCHANGED <<clientRegistered, serverDatabase, op, args, netLog, logout, loc, sideLog>>

\* batchRecords resolves
fetchProfilesInChannel_committed(i) ==
    /\ i \in 1..Len(frames)
    /\ frames[i].pc = "awaitBatch"
    /\ FrameReturns(i, ChannelResult(frames[i].channelId,
                            ReturnedUsers(frames[i].uniqueUsers, args.excludeUserId), <<>>))
    /\ UNCHANGED <<clientRegistered, serverDatabase, op, args, netLog, storeLog, logout,
                   loc, sideLog>>

\* the preparation or batchRecords rejects
fetchProfilesInChannel_storeFailed(i) ==
    /\ i \in 1..Len(frames)
    /\ frames[i].pc \in {"awaitPrepare", "awaitBatch"}
    /\ FrameCatches(i, StoreError)
    /\ UNCHANGED <<clientRegistered, serverDatabase, op, args, netLog, storeLog, loc, sideLog>>

(***************************************************************************)
(* fetchProfilesPerChannels                                                *)
(***************************************************************************)
\* the users of every per-channel result, first occurrence of every object first
RECURSIVE AllUsers(_)
AllUsers(data) ==
    IF data = <<>> THEN <<>> ELSE Head(data).users \o AllUsers(Tail(data))

UnionUsers(data) == UniqueUsers(AllUsers(data))

\* a staging list that keeps the excluded user
UsersToStage_unfiltered(data, excludeUserId) == UnionUsers(data)

\* the users fetchProfilesPerChannels stages
UsersToStage(data, excludeUserId) == FilterExcluded(UnionUsers(data), excludeUserId)

\* the results in the order in which the per-channel calls returned
Data_completionOrder ==
    LET Place(i) == Cardinality({j \in 1..Len(frames) :
                        \/ frames[j].rank < frames[i].rank
                        \/ frames[j].rank = frames[i].rank /\ j < i}) + 1
    IN [k \in 1..Len(frames) |->
           frames[CHOOSE i \in 1..Len(frames) : Place(i) = k].res[1]]

\* Promise.all: the results in the order of the requests
Data == [i \in 1..Len(frames) |-> frames[i].res[1]]

\* the call: one per-channel call per element of channelIds, all started at once
fetchProfilesPerChannels(channelIds, excludeUserId, fetchOnly) ==
    /\ op = "idle"
    /\ op' = "fetchProfilesPerChannels"
    /\ args' = [NoArgs EXCEPT !.fetchOnly = fetchOnly, !.excludeUserId = excludeUserId,
                              !.channelIds = channelIds]
    /\ frames' = [i \in 1..Len(channelIds) |->
                     NewFrame(channelIds[i], InnerFetchOnly(fetchOnly))]
    /\ netLog' = netLog \o NewRequests(channelIds)
    /\ pc' = "awaitAll"
    /\ UNCHANGED <<clientRegistered, serverDatabase, storeLog, logout, loc, sideLog, result>>

\* Promise.all resolves: every per-channel call has returned
fetchProfilesPerChannels_joined ==
    /\ op = "fetchProfilesPerChannels" /\ pc = "awaitAll"
    /\ \A i \in 1..Len(frames) : frames[i].pc = "returned"
    /\ IF ShouldPersist(args.fetchOnly) /\ HasOperator(serverDatabase)
       THEN /\ storeLog' = Append(storeLog,
                   StoreCall("handleUsers", TRUE, UsersToStage(Data, args.excludeUserId)))
            /\ pc' = "awaitPrepare"
            /\ result' = result
       ELSE /\ storeLog' = storeLog
            /\ pc' = "done"
            /\ result' = Returned(<<>>, <<Data>>)
    /\ UNCHANGED <<clientRegistered, serverDatabase, op, args, frames, netLog, logout,
                   loc, sideLog>>

\* the staged records are ready: commit them if there are any
fetchProfilesPerChannels_prepared ==
    /\ op = "fetchProfilesPerChannels" /\ pc = "awaitPrepare"
    /\ LET models == Prepared("User", storeLog[Len(storeLog)].items)
       IN IF Len(models) > 0
          THEN /\ storeLog' = Append(storeLog, StoreCall("batchRecords", FALSE, models))
               /\ pc' = "awaitBatch"
               /\ result' = result
          ELSE /\ storeLog' = storeLog
               /\ pc' = "done"
               /\ result' = Returned(<<>>, <<Data>>)
    /\ UNCHANGED <<clientRegistered, serverDatabase, op, args, frames, netLog, logout,
                   loc, sideLog>>

\* batchRecords resolves
fetchProfilesPerChannels_committed ==
    /\ op = "fetchProfilesPerChannels" /\ pc = "awaitBatch"
    /\ pc' = "done"
    /\ result' = Returned(<<>>, <<Data>>)
    /\ UNCHANGED <<clientRegistered, serverDatabase, op, args, frames, netLog, storeLog,
                   logout, loc, sideLog>>

\* the preparation or batchRecords rejects: the catch block
fetchProfilesPerChannels_storeFailed ==
    /\ op = "fetchProfilesPerChannels" /\ pc \in {"awaitPrepare", "awaitBatch"}
    /\ pc' = "done"
    /\ result' = Returned(<<StoreError>>, <<>>)
    /\ UNCHANGED <<clientRegistered, serverDatabase, op, args, frames, netLog, storeLog,
                   logout, loc, sideLog>>

(***************************************************************************)
(* loadMe                                                                  *)
(***************************************************************************)
\* the six requests are issued together
IssueJoined(currentUser) ==
    /\ netLog' = netLog \o [i \in 1..Len(JoinedRequests) |-> NetCall(JoinedRequests[i], <<>>)]
    /\ loc' = [loc EXCEPT !.currentUser = currentUser, !.pending = Range(JoinedRequests)]
    /\ pc' = "awaitJoin"

\* a device registration that ignores whether a token was given
ShouldAttach_always(deviceToken) == TRUE

\* if (deviceToken)
ShouldAttach(deviceToken) == deviceToken # <<>>

\* the call, up to its first await
loadMe(deviceToken, user) ==
    /\ op = "idle"
    /\ op' = "loadMe"
    /\ args' = [NoArgs EXCEPT !.deviceToken = deviceToken, !.user = user]
    /\ IF ~serverDatabase
       THEN /\ result' = Returned(<<DatabaseNotFound>>, <<>>)
            /\ pc' = "done"
            /\ UNCHANGED <<netLog, loc>>
       ELSE IF ~clientRegistered
       THEN /\ result' = Returned(<<ClientNotFound>>, <<>>)
            /\ pc' = "done"
            /\ UNCHANGED <<netLog, loc>>
       ELSE IF ShouldAttach(deviceToken)
       THEN /\ netLog' = Append(netLog, NetCall("attachDevice", deviceToken))
            /\ loc' = [loc EXCEPT !.currentUser = user]
            /\ pc' = "awaitAttach"
            /\ result' = result
       ELSE IF user = <<>>
       THEN /\ netLog' = Append(netLog, NetCall("getMe", <<>>))
            /\ loc' = loc
            /\ pc' = "awaitGetMe"
            /\ result' = result
       ELSE /\ IssueJoined(user)
            /\ result' = result
    /\ UNCHANGED <<clientRegistered, serverDatabase, frames, storeLog, logout, sideLog>>

\* attachDevice resolves
loadMe_attached ==
    /\ op = "loadMe" /\ pc = "awaitAttach"
    /\ IF loc.currentUser = <<>>
       THEN /\ netLog' = Append(netLog, NetCall("getMe", <<>>))
            /\ loc' = loc
            /\ pc' = "awaitGetMe"
       ELSE IssueJoined(loc.currentUser)
    /\ UNCHANGED <<clientRegistered, serverDatabase, op, args, frames, storeLog, logout,
                   sideLog, result>>

\* getMe resolves
loadMe_gotMe(user) ==
    /\ op = "loadMe" /\ pc = "awaitGetMe"
    /\ IssueJoined(<<user>>)
    /\ UNCHANGED <<clientRegistered, serverDatabase, op, args, frames, storeLog, logout,
                   sideLog, result>>

\* attachDevice or getMe rejects: the handler is started and awaited
loadMe_preambleRejected(error) ==
    /\ op = "loadMe" /\ pc \in {"awaitAttach", "awaitGetMe"}
    /\ logout' = Append(logout, LogoutCall(error, TRUE))
    /\ pc' = "awaitLogout"
    /\ UNCHANGED <<clientRegistered, serverDatabase, op, args, frames, netLog, storeLog,
                   loc, sideLog, result>>

\* the awaited handler has settled
loadMe_afterLogout ==
    /\ op = "loadMe" /\ pc = "awaitLogout"
    /\ HandlerSettled(logout[1])
    /\ result' = IF logout[1].status = "failed"
                 THEN Raised(LogoutError)
                 ELSE LoadMeError(logout[1].error, loc.currentUser)
    /\ pc' = "done"
    /\ UNCHANGED <<clientRegistered, serverDatabase, op, args, frames, netLog, storeLog,
                   logout, loc, sideLog>>

\* one of the six joined requests resolves
loadMe_fetchResolved(request) ==
    /\ op = "loadMe" /\ pc = "awaitJoin"
    /\ request \in loc.pending
    /\ loc' = [loc EXCEPT !.pending = @ \ {request}]
    /\ UNCHANGED <<clientRegistered, serverDatabase, op, args, pc, frames, netLog,
                   storeLog, logout, sideLog, result>>

\* one of the six joined requests rejects: Promise.all rejects, the catch block returns
loadMe_fetchRejected(request, error) ==
    /\ op = "loadMe" /\ pc = "awaitJoin"
    /\ request \in loc.pending
    /\ result' = LoadMeError(error, loc.currentUser)
    /\ loc' = [loc EXCEPT !.caught = pc]
    /\ pc' = "done"
    /\ UNCHANGED <<clientRegistered, serverDatabase, op, args, frames, netLog, storeLog,
                   logout, sideLog>>

\* Promise.all resolves with the six responses: the records are staged, the role
\* names computed and, if there are any, requested
loadMe_joined ==
    /\ op = "loadMe" /\ pc = "awaitJoin"
    /\ loc.pending = {}
    /\ \E other \in OtherResponses, teamMemberships \in SeqsUpTo(TeamMembers, MaxMembers),
          teamUnreads \in SeqsUpTo(TeamUnreads, MaxUnreads) :
       LET teams == other.teams
           preferences == other.preferences
           config == other.config
           license == other.license
           currentUser == loc.currentUser[1]
           myTeams == MyTeams(teamUnreads, teamMemberships)
           systems == Systems(config, license, currentUser)
           rolesToLoad == RolesToLoad(currentUser, teamMemberships)
       IN /\ storeLog' = storeLog \o
                 <<StoreCall("handleTeam", TRUE, teams),
                   StoreCall("handleTeamMemberships", TRUE, teamMemberships),
                   StoreCall("handleMyTeam", TRUE, myTeams),
                   StoreCall("handleSystem", TRUE, systems),
                   StoreCall("handleUsers", TRUE, <<currentUser>>),
                   StoreCall("handlePreferences", TRUE, preferences)>>
          /\ loc' = [loc EXCEPT !.teams = teams, !.teamMemberships = teamMemberships,
                                !.teamUnreads = teamUnreads, !.myTeams = myTeams,
                                !.systems = systems, !.preferences = preferences,
                                !.rolesToLoad = rolesToLoad]
          /\ IF ShouldLoadRoles(rolesToLoad)
             THEN /\ netLog' = Append(netLog, NetCall("getRolesByNames", rolesToLoad))
                  /\ pc' = "awaitRoles"
             ELSE /\ netLog' = netLog
                  /\ pc' = "awaitModels"
    /\ UNCHANGED <<clientRegistered, serverDatabase, op, args, frames, logout, sideLog,
                   result>>

\* getRolesByNames resolves
loadMe_rolesResolved(rolesByName) ==
    /\ op = "loadMe" /\ pc = "awaitRoles"
    /\ loc' = [loc EXCEPT !.rolesByName = rolesByName]
    /\ IF Len(rolesByName) > 0
       THEN /\ storeLog' = Append(storeLog, StoreCall("handleRole", TRUE, rolesByName))
            /\ pc' = "awaitHandleRole"
       ELSE /\ storeLog' = storeLog
            /\ pc' = "awaitModels"
    /\ UNCHANGED <<clientRegistered, serverDatabase, op, args, frames, netLog, logout,
                   sideLog, result>>

\* getRolesByNames rejects
loadMe_rolesRejected(error) ==
    /\ op = "loadMe" /\ pc = "awaitRoles"
    /\ result' = LoadMeError(error, loc.currentUser)
    /\ loc' = [loc EXCEPT !.caught = pc]
    /\ pc' = "done"
    /\ UNCHANGED <<clientRegistered, serverDatabase, op, args, frames, netLog, storeLog,
                   logout, sideLog>>

\* handleRole resolves
loadMe_rolesPrepared ==
    /\ op = "loadMe" /\ pc = "awaitHandleRole"
    /\ loc' = [loc EXCEPT !.rolesRecords = Prepared("Role", loc.rolesByName)]
    /\ pc' = "awaitModels"
    /\ UNCHANGED <<clientRegistered, serverDatabase, op, args, frames, netLog, storeLog,
                   logout, sideLog, result>>

\* Promise.all over the staged records resolves: one commit if there is any record
loadMe_modelsPrepared ==
    /\ op = "loadMe" /\ pc = "awaitModels"
    /\ LET flattenedModels == FlattenedModels(loc)
       IN IF Len(flattenedModels) > 0
          THEN /\ storeLog' = Append(storeLog,
                                     StoreCall("batchRecords", FALSE, flattenedModels))
               /\ pc' = "awaitBatch"
               /\ result' = result
          ELSE /\ storeLog' = storeLog
               /\ pc' = "done"
               /\ result' = Returned(<<>>, loc.currentUser)
    /\ UNCHANGED <<clientRegistered, serverDatabase, op, args, frames, netLog, logout,
                   loc, sideLog>>

\* batchRecords resolves
loadMe_committed ==
    /\ op = "loadMe" /\ pc = "awaitBatch"
    /\ result' = Returned(<<>>, loc.currentUser)
    /\ pc' = "done"
    /\ UNCHANGED <<clientRegistered, serverDatabase, op, args, frames, netLog, storeLog,
                   logout, loc, sideLog>>

\* a staging call or batchRecords rejects: the catch block returns
loadMe_storeFailed ==
    /\ op = "loadMe" /\ pc \in {"awaitHandleRole", "awaitModels", "awaitBatch"}
    /\ result' = LoadMeError(StoreError, loc.currentUser)
    /\ loc' = [loc EXCEPT !.caught = pc]
    /\ pc' = "done"
    /\ UNCHANGED <<clientRegistered, serverDatabase, op, args, frames, netLog, storeLog,
                   logout, sideLog>>

(***************************************************************************)
(* updateMe                                                                *)
(***************************************************************************)
SideCall(fn, arg) == [fn |-> fn, arg |-> arg]

\* the call, up to its first await
updateMe(user) ==
    /\ op = "idle"
    /\ op' = "updateMe"
    /\ args' = [NoArgs EXCEPT !.user = <<user>>]
    /\ IF ~serverDatabase
       THEN /\ result' = Returned(<<DatabaseNotFound>>, <<>>)
            /\ pc' = "done"
            /\ netLog' = netLog
       ELSE IF ~clientRegistered
       THEN /\ result' = Returned(<<ClientNotFound>>, <<>>)
            /\ pc' = "done"
            /\ netLog' = netLog
       ELSE /\ netLog' = Append(netLog, NetCall("patchMe", <<user>>))
            /\ pc' = "awaitPatch"
            /\ result' = result
    /\ UNCHANGED <<clientRegistered, serverDatabase, frames, storeLog, logout, loc, sideLog>>

\* patchMe resolves with data, <<>> when the server gave none
updateMe_patched(data) ==
    /\ op = "updateMe" /\ pc = "awaitPatch"
    /\ loc' = [loc EXCEPT !.data = data]
    /\ IF data # <<>>
       THEN /\ storeLog' = Append(storeLog, ImmediateUpsert(data))
            /\ LET updatedRoles == Split(data[1].roles)
               IN IF ShouldRefreshRoles(updatedRoles)
                  THEN /\ sideLog' = Append(sideLog,
                                            SideCall("fetchRolesIfNeeded", updatedRoles))
                       /\ pc' = "awaitRolesRefresh"
                       /\ result' = result
                  ELSE /\ sideLog' = sideLog
                       /\ pc' = "done"
                       /\ result' = Returned(<<>>, data)
       ELSE /\ storeLog' = storeLog
            /\ sideLog' = sideLog
            /\ pc' = "done"
            /\ result' = Returned(<<>>, data)
    /\ UNCHANGED <<clientRegistered, serverDatabase, op, args, frames, netLog, logout>>

\* a catch block that swallows the error
UpdateMeError_swallowed(error) == Returned(<<>>, <<>>)

\* what the catch block of updateMe returns
UpdateMeError(error) == Returned(<<error>>, <<>>)

\* patchMe rejects: the catch block logs the error and returns it
updateMe_patchRejected(error) ==
    /\ op = "updateMe" /\ pc = "awaitPatch"
    /\ sideLog' = Append(sideLog, SideCall("logError", <<error>>))
    /\ result' = UpdateMeError(error)
    /\ loc' = [loc EXCEPT !.caught = pc]
    /\ pc' = "done"
    /\ UNCHANGED <<clientRegistered, serverDatabase, op, args, frames, netLog, storeLog,
                   logout>>

\* fetchRolesIfNeeded resolves
updateMe_rolesRefreshed ==
    /\ op = "updateMe" /\ pc = "awaitRolesRefresh"
    /\ result' = Returned(<<>>, loc.data)
    /\ pc' = "done"
    /\ UNCHANGED <<clientRegistered, serverDatabase, op, args, frames, netLog, storeLog,
                   logout, loc, sideLog>>

\* fetchRolesIfNeeded rejects: nothing catches it
updateMe_rolesRefreshFailed(error) ==
    /\ op = "updateMe" /\ pc = "awaitRolesRefresh"
    /\ result' = Raised(error)
    /\ pc' = "done"
    /\ UNCHANGED <<clientRegistered, serverDatabase, op, args, frames, netLog, storeLog,
                   logout, loc, sideLog>>

Next ==
    \/ \E i \in 1..Len(logout) : forceLogoutDone(i)
    \/ \E i \in 1..Len(logout) : forceLogoutFailed(i)
    \/ \E f \in BOOLEAN : fetchMe(f)
    \/ \E u \in MeProfiles : fetchMe_getMeResolved(u)
    \/ \E e \in NetErrors : fetchMe_getMeRejected(e)
    \/ fetchMe_afterLogout
    \/ \E c \in ChannelIds, x \in Excludes, f \in BOOLEAN : fetchProfilesInChannel(c, x, f)
    \/ \E i \in 1..Len(frames) : fetchProfilesInChannel_resolved(i)
    \/ \E i \in 1..Len(frames), e \in NetErrors : fetchProfilesInChannel_rejected(i, e)
    \/ \E i \in 1..Len(frames) : fetchProfilesInChannel_prepared(i)
    \/ \E i \in 1..Len(frames) : fetchProfilesInChannel_committed(i)
    \/ \E i \in 1..Len(frames) : fetchProfilesInChannel_storeFailed(i)
    \/ \E cs \in ChannelIdLists, x \in Excludes, f \in BOOLEAN :
          fetchProfilesPerChannels(cs, x, f)
    \/ fetchProfilesPerChannels_joined
    \/ fetchProfilesPerChannels_prepared
    \/ fetchProfilesPerChannels_committed
    \/ fetchProfilesPerChannels_storeFailed
    \/ \E d \in DeviceTokens, u \in OptionalMe : loadMe(d, u)
    \/ loadMe_attached
    \/ \E u \in MeProfiles : loadMe_gotMe(u)
    \/ \E e \in NetErrors : loadMe_preambleRejected(e)
    \/ loadMe_afterLogout
    \/ \E r \in Range(JoinedRequests) : loadMe_fetchResolved(r)
    \/ \E r \in Range(JoinedRequests), e \in NetErrors : loadMe_fetchRejected(r, e)
    \/ loadMe_joined
    \/ \E rs \in RoleResponses(loc.rolesToLoad) : loadMe_rolesResolved(rs)
    \/ \E e \in NetErrors : loadMe_rolesRejected(e)
    \/ loadMe_rolesPrepared
    \/ loadMe_modelsPrepared
    \/ loadMe_committed
    \/ loadMe_storeFailed
    \/ \E u \in MeProfiles : updateMe(u)
    \/ \E d \in OptionalMe : updateMe_patched(d)
    \/ \E e \in NetErrors : updateMe_patchRejected(e)
    \/ updateMe_rolesRefreshed
    \/ updateMe_rolesRefreshFailed("roles_error")

Spec == Init /\ [][Next]_vars

(***************************************************************************)
(* Properties.                                                             *)
(***************************************************************************)
Commits == {i \in 1..Len(storeLog) : storeLog[i].fn = "batchRecords"}

ImmediateWrites ==
    {i \in 1..Len(storeLog) :
        storeLog[i].fn # "batchRecords" /\ ~storeLog[i].prepareRecordsOnly}

\* C1: a call of fetchMe, fetchProfilesInChannel or fetchProfilesPerChannels with
\* fetchOnly = true never invokes batchRecords and makes no immediate store write,
\* whatever the network requests answer.
C1_FetchOnlyNeverWrites ==
    (op \in {"fetchMe", "fetchProfilesInChannel", "fetchProfilesPerChannels"}
     /\ args.fetchOnly)
        => Commits = {} /\ ImmediateWrites = {}

\* a fetch-only fan-out over two channels has returned users while the store exists
C1_Witness ==
    /\ op = "fetchProfilesPerChannels" /\ args.fetchOnly /\ serverDatabase
    /\ pc = "done" /\ result.error = <<>>
    /\ Len(result.value[1]) = 2
    /\ \A k \in 1..2 : result.value[1][k].users # <<>>

\* the awaits of loadMe's second try block, up to the commit
BeforeCommit == {"awaitJoin", "awaitRoles", "awaitHandleRole", "awaitModels"}

\* C2: when loadMe catches an exception raised after the current user is known and
\* before the batch commit (a joined fetch, the role fetch or a staging call rejects),
\* batchRecords is not invoked in that call and the result is an error without
\* currentUser.
C2_NoCommitAfterFailure ==
    (op = "loadMe" /\ loc.caught \in BeforeCommit)
        => /\ Commits = {}
           /\ pc = "done"
           /\ result.st = "returned"
           /\ result.error # <<>>
           /\ result.value = <<>>

\* the role fetch rejected after the records were staged
C2_Witness ==
    /\ op = "loadMe" /\ loc.caught = "awaitRoles"
    /\ Len(storeLog) = 6
    /\ result.error = <<"network_error">>

\* the table a staging call prepares records of
TableOf(fn) ==
    CASE fn = "handleTeam" -> "Team"
      [] fn = "handleTeamMemberships" -> "TeamMembership"
      [] fn = "handleMyTeam" -> "MyTeam"
      [] fn = "handleSystem" -> "System"
      [] fn = "handlePreferences" -> "Preference"
      [] fn = "handleRole" -> "Role"
      [] fn = "handleUsers" -> "User"

\* every record the staging calls before call i of the log prepared
StagedBefore(i) ==
    UNION {Range(Prepared(TableOf(storeLog[j].fn), storeLog[j].items)) : j \in 1..(i - 1)}

RECURSIVE SumLens(_)
SumLens(calls) == IF calls = <<>> THEN 0 ELSE Len(Head(calls).items) + SumLens(Tail(calls))

\* C3: a run of loadMe invokes batchRecords at most once; when it does, the six
\* joined fetches and the role fetch have completed, every staging call was made
\* before it and none after, its argument is exactly the records staged in the run
\* (teams, team memberships, my-teams, system rows, preferences, roles, current
\* user), and no other store call writes.
C3_OneCommitOfAllStaged ==
    op = "loadMe"
        => /\ Cardinality(Commits) <= 1
           /\ ImmediateWrites = {}
           /\ \A i \in Commits :
                /\ i = Len(storeLog)
                /\ pc \in {"awaitBatch", "done"}
                /\ loc.pending = {}
                /\ \A r \in Range(JoinedRequests) : \E n \in 1..Len(netLog) : netLog[n].method = r
                /\ {"handleTeam", "handleTeamMemberships", "handleMyTeam", "handleSystem",
                    "handleUsers", "handlePreferences"}
                       \subseteq {storeLog[j].fn : j \in 1..(i - 1)}
                /\ Range(storeLog[i].items) = StagedBefore(i)
                /\ Len(storeLog[i].items) = SumLens(SubSeq(storeLog, 1, i - 1))

\* a commit that includes staged role records
C3_Witness ==
    /\ op = "loadMe" /\ pc = "done" /\ result.error = <<>>
    /\ Commits # {}
    /\ \E j \in 1..Len(storeLog) : storeLog[j].fn = "handleRole"
    /\ loc.teamMemberships # <<>> /\ loc.teamUnreads # <<>>

Excluded(u) == args.excludeUserId # <<>> /\ u.id = args.excludeUserId[1]

\* the per-channel calls that failed, and those that returned users
FailedFrames == {k \in 1..Len(frames) : frames[k].pc = "returned" /\ frames[k].res[1].error # <<>>}

\* C4: with excludeUserId supplied, the users fetchProfilesInChannel returns, and the
\* per-channel user lists fetchProfilesPerChannels returns, hold no user whose id is
\* excludeUserId, whatever the server answers and whatever fetchOnly is.
C4_ReturnedUsersExcludeUser ==
    /\ (op = "fetchProfilesInChannel" /\ pc = "done" /\ result.error = <<>>)
          => \A u \in Range(result.value[1]) : ~Excluded(u)
    /\ (op = "fetchProfilesPerChannels" /\ pc = "done" /\ result.error = <<>>)
          => \A k \in 1..Len(result.value[1]) :
                \A u \in Range(result.value[1][k].users) : ~Excluded(u)

\* C5: in fetchProfilesPerChannels the failure of one channel's fetch gives no
\* top-level error and does not keep the other channels' users from being returned
\* and committed: the failing entry carries its error, every other entry its users,
\* and those users are in the combined upsert. (Only a store failure of the combined
\* upsert itself gives a top-level error.)
C5_FailureIsolatedPerChannel ==
    (op = "fetchProfilesPerChannels" /\ pc = "done" /\ FailedFrames # {})
        => /\ result.error \in {<<>>, <<StoreError>>}
           /\ result.error = <<>> =>
                /\ Len(result.value[1]) = Len(args.channelIds)
                /\ \A k \in 1..Len(frames) :
                      /\ result.value[1][k] = frames[k].res[1]
                      /\ k \in FailedFrames => result.value[1][k].users = <<>>
                /\ (~args.fetchOnly /\ serverDatabase) =>
                      \E i \in 1..Len(storeLog) :
                         /\ storeLog[i].fn = "handleUsers"
                         /\ \A k \in 1..Len(frames) :
                               Range(result.value[1][k].users) \subseteq Range(storeLog[i].items)

\* every user the per-channel results carry
ReturnedUnion == UNION {Range(frames[k].res[1].users) : k \in 1..Len(frames)}

\* C6: fetchProfilesPerChannels with fetchOnly = false invokes batchRecords at most
\* once whatever the number of channels, the per-channel calls make no store call,
\* every store call comes after all per-channel calls have returned, and the users
\* staged for the commit are exactly the union of the per-channel user lists minus
\* the users whose id is excludeUserId, each once.
C6_OneCombinedCommit ==
    (op = "fetchProfilesPerChannels" /\ ~args.fetchOnly)
        => /\ Cardinality(Commits) <= 1
           /\ ImmediateWrites = {}
           /\ storeLog # <<>> =>
                /\ \A k \in 1..Len(frames) : frames[k].pc = "returned"
                /\ storeLog[1].fn = "handleUsers"
                /\ Range(storeLog[1].items) = {u \in ReturnedUnion : ~Excluded(u)}
                /\ Len(storeLog[1].items) = Cardinality(Range(storeLog[1].items))
                /\ Len(storeLog) <= 2
           /\ \A i \in Commits :
                /\ i = 2
                /\ storeLog[i].items = Prepared("User", storeLog[1].items)

\* two channels answered, the excluded user among the answers, and the rest committed
C6_Witness ==
    /\ op = "fetchProfilesPerChannels" /\ ~args.fetchOnly /\ pc = "done"
    /\ Len(frames) = 2 /\ FailedFrames = {}
    /\ Commits # {}
    /\ \E u \in ReturnedUnion : Excluded(u)
    /\ \E k \in 1..2 : frames[k].res[1].users # frames[3 - k].res[1].users

\* the staging calls of one function in the log
CallsOf(fn) == {i \in 1..Len(storeLog) : storeLog[i].fn = fn}

\* C7: the my-team list loadMe passes to handleMyTeam has one entry per team-unread
\* entry received, in the same order and with the same team id, whether or not a
\* membership with that team id exists; an entry's roles are the roles of the first
\* membership with its team id, and the empty string when there is none.
C7_MyTeamPerUnread ==
    op = "loadMe" =>
        \A c \in CallsOf("handleMyTeam") :
            LET myTeams == storeLog[c].items
                unreads == loc.teamUnreads
                members == loc.teamMemberships
            IN /\ Len(myTeams) = Len(unreads)
               /\ \A i \in 1..Len(unreads) :
                    LET same == {j \in 1..Len(members) : members[j].team_id = unreads[i].team_id}
                    IN /\ myTeams[i].id = unreads[i].team_id
                       /\ same = {} => myTeams[i].roles = Str_empty
                       /\ \A j \in same :
                             (\A k \in same : j <= k) => myTeams[i].roles = members[j].roles

\* an unread entry without membership after one whose team has two memberships
\* with different roles
C7_Witness ==
    /\ op = "loadMe" /\ CallsOf("handleMyTeam") # {}
    /\ Len(loc.teamUnreads) = 2 /\ Len(loc.teamMemberships) = 2
    /\ loc.teamUnreads[1].team_id = "t1" /\ loc.teamUnreads[2].team_id = "t2"
    /\ \A j \in 1..2 : loc.teamMemberships[j].team_id = "t1"
    /\ loc.teamMemberships[1].roles # loc.teamMemberships[2].roles

\* the role names of a role string: its maximal runs of characters other than space
Tokens(s) ==
    {SubSeq(s, p[1], p[2]) :
        p \in {q \in (1..Len(s)) \X (1..Len(s)) :
                 /\ q[1] <= q[2]
                 /\ \A k \in q[1]..q[2] : s[k] # " "
                 /\ (q[1] = 1 \/ s[q[1] - 1] = " ")
                 /\ (q[2] = Len(s) \/ s[q[2] + 1] = " ")}}

\* the role names loadMe has to resolve
RoleTokens ==
    Tokens(loc.currentUser[1].roles)
    \cup UNION {Tokens(loc.teamMemberships[j].roles) : j \in 1..Len(loc.teamMemberships)}

RoleRequests == {n \in 1..Len(netLog) : netLog[n].method = "getRolesByNames"}

\* loadMe has the six responses and has staged the records
Joined == op = "loadMe" /\ CallsOf("handleMyTeam") # {}

\* C8: the role names loadMe passes to getRolesByNames are the deduplicated union of
\* the space-separated tokens of the current user's role string and of every team
\* membership's role string.
C8_RoleNamesAreTokenUnion ==
    Joined =>
        \A n \in RoleRequests :
            /\ Range(netLog[n].arg) = RoleTokens
            /\ Len(netLog[n].arg) = Cardinality(RoleTokens)

\* C9: when the union of role tokens is empty (the current user's role string is
\* empty and there is no membership or every membership's role string is empty),
\* loadMe makes no getRolesByNames call and still returns the current user.
C9_NoRoleFetchWithoutRoles ==
    (Joined /\ RoleTokens = {})
        => /\ RoleRequests = {}
           /\ (pc = "done" /\ loc.caught = "none")
                 => result = Returned(<<>>, loc.currentUser)

\* updateMe has the server's answer to the patch
Patched == op = "updateMe" /\ pc \in {"awaitRolesRefresh", "done"} /\ loc.data # <<>>

RoleRefreshes == {i \in 1..Len(sideLog) : sideLog[i].fn = "fetchRolesIfNeeded"}

C11_PatchFailureLeavesStateUnchanged ==
    (op = "updateMe" /\ loc.caught = "awaitPatch") =>
        /\ pc = "done"
        /\ result.st = "returned"
        /\ Len(result.error) = 1
        /\ result.error[1] \in NetErrors
        /\ result.value = <<>>
        /\ sideLog = <<SideCall("logError", result.error)>>
        /\ storeLog = <<>>
        /\ RoleRefreshes = {}
        /\ Len(netLog) = 1

C11_Witness ==
    /\ op = "updateMe" /\ pc = "done" /\ loc.caught = "awaitPatch"
    /\ result.error = <<"network_error">>
    /\ \E i \in 1..Len(sideLog) : sideLog[i].fn = "logError"

\* a forced-logout handler that itself threw
HandlerThrew == \E i \in 1..Len(logout) : logout[i].status = "failed"

\* C12: no public operation raises to its caller (a throwing forced-logout handler
\* set aside): every failure, a role-refresh failure in updateMe included, comes
\* back as a result with an error and no success value, and no result has both
C12_NoOperationRaises ==
    /\ (result.st = "raised") => HandlerThrew
    /\ (result.st = "returned") => ~(result.error # <<>> /\ result.value # <<>>)
    /\ (pc = "done" /\ loc.caught # "none" /\ ~HandlerThrew) =>
           (result.st = "returned" /\ result.error # <<>> /\ result.value = <<>>)

\* a call that is asked to persist
AskedToPersist == op # "idle" /\ ~args.fetchOnly

\* C13: every operation asked to persist, when the client is not
\* registered or the database is absent, returns an error, issues no network
\* request and writes nothing to the store
C13_MissingRegistryIsAnError ==
    (AskedToPersist /\ (~clientRegistered \/ ~serverDatabase)) =>
        /\ netLog = <<>>
        /\ Commits = {} /\ ImmediateWrites = {}
        /\ (pc = "done") => (result.error # <<>> /\ result.value = <<>>)

\* C14: when getMe fails in fetchMe, the forced-logout handler is called once with
\* the error of the request and awaited; when fetchMe returns, the handler has
\* completed, the result carries that error and no user, and no store call was made
C14_GetMeFailureAwaitsLogout ==
    /\ (op = "fetchMe" /\ logout # <<>>) =>
          /\ Len(logout) = 1
          /\ logout[1].awaited
          /\ logout[1].error \in NetErrors
          /\ Len(netLog) = 1 /\ netLog[1].method = "getMe"
          /\ storeLog = <<>>
          /\ (pc = "done") => (logout[1].status # "running")
          /\ (result.st = "returned") =>
                /\ logout[1].status = "done"
                /\ result.error = <<logout[1].error>>
                /\ result.value = <<>>
    /\ (op = "fetchMe" /\ pc = "done" /\ clientRegistered /\ result.value = <<>>) =>
          logout # <<>>

C14_Witness ==
    /\ op = "fetchMe" /\ pc = "done" /\ ~args.fetchOnly /\ serverDatabase
    /\ Len(logout) = 1 /\ logout[1].status = "done"
    /\ logout[1].error = "session_expired"
    /\ result = Returned(<<"session_expired">>, <<>>)

\* fetchMe was asked to persist, the operator exists and getMe has resolved
FetchMePersisted ==
    /\ op = "fetchMe" /\ pc = "done" /\ ~args.fetchOnly
    /\ clientRegistered /\ serverDatabase
    /\ logout = <<>>

\* C15: when fetchMe is called with fetchOnly = false, getMe returns a profile and
\* the operator exists, the store sees exactly one call, handleUsers with
\* prepareRecordsOnly = false and the fetched profile as its only user, no
\* batchRecords call is made, and the result is that profile with no error
C15_FetchMeWritesProfileOnce ==
    FetchMePersisted =>
        /\ result.st = "returned"
        /\ result.error = <<>>
        /\ Len(result.value) = 1
        /\ result.value[1] \in MeProfiles
        /\ Len(storeLog) = 1
        /\ storeLog[1].fn = "handleUsers"
        /\ storeLog[1].prepareRecordsOnly = FALSE
        /\ storeLog[1].items = <<result.value[1]>>
        /\ Commits = {}

C15_Witness ==
    /\ FetchMePersisted
    /\ result.value = <<[id |-> "me", roles |-> Str_a_b]>>
    /\ Len(storeLog) = 1

\* the positions of the requests of a method in the request log
RequestsOf(method) == {i \in 1..Len(netLog) : netLog[i].method = method}

\* the positions of the six joined fetches of loadMe
JoinedFetches == {i \in 1..Len(netLog) : netLog[i].method \in Range(JoinedRequests)}

\* C16: in loadMe attachDevice is requested only when a device token is supplied and
\* getMe only when no user is supplied, and once loadMe has got as far as the six
\* joined fetches it has requested attachDevice exactly when a token was supplied and
\* getMe exactly when no user was, both before any of the six. When either fails the
\* forced-logout handler is called with the error and awaited: when loadMe returns
\* the handler has completed, the result has the error and no currentUser, and none
\* of the six fetches, no staging call and no batchRecords has happened
C16_PreambleBeforeJoinedFetches ==
    (op = "loadMe") =>
        /\ RequestsOf("attachDevice") # {} => args.deviceToken # <<>>
        /\ RequestsOf("getMe") # {} => args.user = <<>>
        /\ (serverDatabase /\ clientRegistered) =>
              (RequestsOf("attachDevice") # {} <=> args.deviceToken # <<>>)
        /\ JoinedFetches # {} =>
              /\ RequestsOf("attachDevice") # {} <=> args.deviceToken # <<>>
              /\ RequestsOf("getMe") # {} <=> args.user = <<>>
        /\ \A i \in RequestsOf("attachDevice") \cup RequestsOf("getMe") :
              \A j \in JoinedFetches : i < j
        /\ \A i \in RequestsOf("attachDevice") : \A j \in RequestsOf("getMe") : i < j
        /\ logout # <<>> =>
              /\ Len(logout) = 1
              /\ logout[1].awaited
              /\ logout[1].error \in NetErrors
              /\ JoinedFetches = {}
              /\ storeLog = <<>>
              /\ (pc = "done") => (logout[1].status # "running")
              /\ (result.st = "returned") =>
                    /\ logout[1].status = "done"
                    /\ result.error = <<logout[1].error>>
                    /\ result.value = <<>>

\* attachDevice succeeded, getMe failed, the handler completed and loadMe returned
C16_Witness ==
    /\ op = "loadMe" /\ pc = "done"
    /\ args.deviceToken # <<>> /\ args.user = <<>>
    /\ Len(netLog) = 2 /\ netLog[1].method = "attachDevice" /\ netLog[2].method = "getMe"
    /\ Len(logout) = 1 /\ logout[1].status = "done"
    /\ result = Returned(<<logout[1].error>>, <<>>)

\* the number of positions of a sequence that hold a value
Occurrences(s, value) == Cardinality({i \in 1..Len(s) : s[i] = value})

\* every client method is requested at most once in a call, getProfilesInChannel
\* at most once per element of channelIds
AtMostOncePerCall ==
    /\ \A i, j \in 1..Len(netLog) :
          (i # j /\ netLog[i].method = netLog[j].method) =>
              netLog[i].method = "getProfilesInChannel"
    /\ \A c \in ChannelIds :
          Occurrences(netLog, NetCall("getProfilesInChannel", <<c>>))
              <= Occurrences(args.channelIds, c)

\* a network request of the call has failed
RequestFailed ==
    \/ op = "fetchMe" /\ logout # <<>>
    \/ op = "fetchProfilesInChannel" /\ frames[1].pc = "returned"
          /\ frames[1].res[1].error # <<>> /\ frames[1].res[1].error[1] \in NetErrors
    \/ op = "loadMe" /\ (logout # <<>> \/ loc.caught \in {"awaitJoin", "awaitRoles"})
    \/ op = "updateMe" /\ loc.caught = "awaitPatch"

\* C17: no operation retries. Within one call every client method is requested at
\* most once (getProfilesInChannel at most once per element of channelIds), and once
\* a request of a call of fetchMe, fetchProfilesInChannel, loadMe or updateMe has
\* failed, no step of that call issues another request
C17_NoRetry ==
    /\ []AtMostOncePerCall
    /\ [][RequestFailed => netLog' = netLog]_vars

\* one of the six joined fetches of loadMe failed after the others were issued
C17_Witness ==
    /\ op = "loadMe" /\ pc = "done" /\ loc.caught = "awaitJoin"
    /\ RequestFailed
    /\ Cardinality(JoinedFetches) = 6
    /\ result.error # <<>>

\* a forced-logout handler is still running
HandlerRunning == \E i \in 1..Len(logout) : logout[i].status = "running"

\* C18: when the channel fetch of fetchProfilesInChannel fails the forced-logout
\* handler is started and not awaited: the call returns {channelId, error} with the
\* error of the request whatever the handler does afterwards, also when the handler
\* fails, and the result never changes once returned. fetchMe and loadMe await the
\* handler: neither has ever returned while a handler is running
C18_LogoutNotAwaitedInChannelFetch ==
    /\ (op = "fetchProfilesInChannel" /\ logout # <<>>) =>
          /\ Len(logout) = 1
          /\ ~logout[1].awaited
          /\ pc = "done"
          /\ result = Returned(<<logout[1].error>>, <<>>)
          /\ frames[1].res = <<ChannelResult(frames[1].channelId, <<>>, <<logout[1].error>>)>>
    /\ (op \in {"fetchMe", "loadMe"} /\ pc = "done") => ~HandlerRunning
    /\ (op \in {"fetchMe", "loadMe"}) => \A i \in 1..Len(logout) : logout[i].awaited

\* fetchProfilesInChannel has returned its error while the handler is still running
C18_Witness ==
    /\ op = "fetchProfilesInChannel" /\ pc = "done"
    /\ result.st = "returned" /\ result.error = <<"session_expired">>
    /\ Len(logout) = 1 /\ logout[1].status = "running" /\ ~logout[1].awaited

\* the profile objects the server returned to the call, over all its channels
Responded == UNION {Range(frames[k].users) : k \in 1..Len(frames)}

\* the staged user upserts of the call
StagedUpserts ==
    {i \in 1..Len(storeLog) :
        storeLog[i].fn = "handleUsers" /\ storeLog[i].prepareRecordsOnly}

\* C19: fetchProfilesInChannel and fetchProfilesPerChannels deduplicate by object
\* identity, not by user id. Every profile object the server returned (other than
\* those of the excluded user) is in the staged upsert exactly once, however often
\* it occurs in one response or over the channels, and two distinct objects with the
\* same id are both in it
C19_DedupByObjectIdentity ==
    (op \in {"fetchProfilesInChannel", "fetchProfilesPerChannels"}) =>
        \A i \in StagedUpserts :
            /\ \A p \in Responded :
                  ~Excluded(p) => Occurrences(storeLog[i].items, p) = 1
            /\ \A p, q \in Responded :
                  (p.obj # q.obj /\ p.id = q.id /\ ~Excluded(p)) =>
                      (\E m, n \in 1..Len(storeLog[i].items) :
                          /\ m # n
                          /\ storeLog[i].items[m] = p
                          /\ storeLog[i].items[n] = q)
            /\ Range(storeLog[i].items) \subseteq Responded

\* object 1 came twice for the first channel and again for the second, with object
\* 2 of the same id: objects 1 and 2 are staged once each
C19_Witness ==
    /\ op = "fetchProfilesPerChannels" /\ pc = "done" /\ Len(frames) = 2
    /\ frames[1].users = <<[obj |-> 1, id |-> "u1"], [obj |-> 1, id |-> "u1"]>>
    /\ frames[2].users = <<[obj |-> 2, id |-> "u1"], [obj |-> 1, id |-> "u1"]>>
    /\ \E i \in StagedUpserts :
          storeLog[i].items = <<[obj |-> 1, id |-> "u1"], [obj |-> 2, id |-> "u1"]>>

\* C20: whenever fetchProfilesPerChannels returns without a top-level error its data
\* list has one entry per element of channelIds, in the order of channelIds, the
\* i-th entry being the result of the i-th channel's call, with that channel's id
\* and either users or an error, whatever the order in which the calls completed
C20_DataFollowsChannelIds ==
    (op = "fetchProfilesPerChannels" /\ pc = "done" /\ result.error = <<>>) =>
        /\ result.st = "returned"
        /\ Len(result.value) = 1
        /\ Len(result.value[1]) = Len(args.channelIds)
        /\ \A i \in 1..Len(args.channelIds) :
              /\ result.value[1][i].channelId = args.channelIds[i]
              /\ result.value[1][i] = frames[i].res[1]
              /\ result.value[1][i].error # <<>> => result.value[1][i].users = <<>>

\* the second channel's call completed first, with an error, and the first
\* channel's users are still the first entry
C20_Witness ==
    /\ op = "fetchProfilesPerChannels" /\ pc = "done" /\ result.error = <<>>
    /\ args.channelIds = <<"c2", "c1">>
    /\ frames[2].rank = 1 /\ frames[1].rank = 2
    /\ result.value[1][1].channelId = "c2" /\ result.value[1][1].users # <<>>
    /\ result.value[1][2].channelId = "c1" /\ result.value[1][2].error # <<>>

====
